---- MODULE Spec2Model ----
(***************************************************************************)
(* Model of src/app.py, the Jumbo Homes internal dashboard: one Streamlit  *)
(* script that is re-run from the top on every UI interaction.             *)
(*                                                                         *)
(* Text values (CSV cells, e-mails, first names) are sequences of          *)
(* one-character strings so that str.strip() and str.lower() are computed  *)
(* and not assumed.  A missing cell (NaN) is the empty sequence: read_csv  *)
(* turns an empty cell into NaN, so no cell holds the empty string.        *)
(* Timestamps are integers counted in ticks, TicksPerDay ticks to a        *)
(* calendar day; tick 0 of a day is midnight.  NaT is -1.                  *)
(***************************************************************************)
EXTENDS Integers, Sequences, FiniteSets, TLC

VARIABLES csv, cache, widgets, pc, outcome, tables, err_shown, period,
          email_to_name, manual_entries, cv, cv_comp, ci, agg, leaderboard,
          shown, trace

vars == <<csv, cache, widgets, pc, outcome, tables, err_shown, period,
          email_to_name, manual_entries, cv, cv_comp, ci, agg, leaderboard,
          shown, trace>>

-----------------------------------------------------------------------------
(* Bounds of the model *)

\* days 0..MaxDay can be selected in the date widget and carry records
MaxDay == 2
\* ticks of one calendar day (0 = midnight, 1 = some later time of that day)
TicksPerDay == 2
\* rows in Visits.csv
MaxVisits == 2
\* rows in home_inspection.csv
MaxInsp == 2
\* rows in Owners.csv
MaxOwners == 2
\* rows in Admins.csv
MaxAdmins == 2
\* largest manual Tours / Ratings count entered for a person
MaxManual == 1

(* Program constants *)
PtsFirstVisit == 3
PtsRepeatVisit == 7
PtsManaged == 4
PtsInspection == 4
DefaultTourPts == 20
DefaultRatingPts == 10

-----------------------------------------------------------------------------
(* Text *)

NaN == <<>>
NaT == -1

Unknown == <<"U", "n", "k", "n", "o", "w", "n">>
Ann == <<"A", "n", "n">>
Bob == <<"B", "o", "b">>
AnnPadded == <<" ", "A", "n", "n">>
MailA == <<"a", "@", "x">>
MailAUpper == <<"A", "@", "X">>
MailAMixed == <<"A", "@", "x">>
MailAPadded == <<"a", "@", "x", " ">>
MailAUpperPadded == <<" ", "A", "@", "X", " ">>
MailB == <<"b", "@", "x">>
HomesP1 == <<"p", "_", "1">>
HttpsPlan == <<"h", "t", "t", "p", "s", ":", "f">>
HttpPlan == <<"h", "t", "t", "p", ":", "f">>
Https == <<"h", "t", "t", "p", "s">>
Completed == "Completed"
Scheduled == "Scheduled"

\* str.lower() on one character
LowerChar(c) ==
    CASE c = "A" -> "a"
      [] c = "B" -> "b"
      [] c = "U" -> "u"
      [] c = "X" -> "x"
      [] OTHER -> c

\* str.lower()
Lower(s) == [i \in 1..Len(s) |-> LowerChar(s[i])]

IsSpace(c) == c = " "

RECURSIVE LStrip(_)
LStrip(s) == IF s # <<>> /\ IsSpace(Head(s)) THEN LStrip(Tail(s)) ELSE s

RECURSIVE RStrip(_)
RStrip(s) ==
    IF s # <<>> /\ IsSpace(s[Len(s)]) THEN RStrip(SubSeq(s, 1, Len(s) - 1)) ELSE s

\* str.strip()
Strip(s) == RStrip(LStrip(s))

\* 'sub' in s
Contains(s, sub) ==
    \E i \in 1..(Len(s) - Len(sub) + 1) : SubSeq(s, i, i + Len(sub) - 1) = sub

\* s.split('_')[0]
RECURSIVE SplitFirst(_)
SplitFirst(s) ==
    IF s = <<>> \/ Head(s) = "_" THEN <<>> ELSE <<Head(s)>> \o SplitFirst(Tail(s))

-----------------------------------------------------------------------------
(* Sequences and time *)

Range(s) == {s[i] : i \in 1..Len(s)}

RECURSIVE SelectIdx(_, _, _)
\* the rows of s, in order, at the positions in keep (boolean indexing)
SelectIdx(s, keep, i) ==
    IF i > Len(s) THEN <<>>
    ELSE (IF i \in keep THEN <<s[i]>> ELSE <<>>) \o SelectIdx(s, keep, i + 1)

Count(s, keep) == Cardinality({i \in 1..Len(s) : i \in keep})

Min(S) == CHOOSE x \in S : \A y \in S : x <= y

RECURSIVE SumOver(_, _)
SumOver(f, S) ==
    IF S = {} THEN 0
    ELSE LET x == CHOOSE y \in S : TRUE IN f[x] + SumOver(f, S \ {x})

\* pd.to_datetime(date): midnight of the day
Midnight(day) == day * TicksPerDay
\* timedelta(days = n)
Days(n) == n * TicksPerDay
\* Timestamp.date()
DateOf(ts) == ts \div TicksPerDay
\* (a - b).days
DaysBetween(a, b) == (a - b) \div TicksPerDay

\* comparisons with NaT are False
Ge(ts, bound) == ts # NaT /\ ts >= bound
Le(ts, bound) == ts # NaT /\ ts <= bound
Lt(ts, bound) == ts # NaT /\ ts < bound
InRange(ts, lo, hi) == Ge(ts, lo) /\ Le(ts, hi)

-----------------------------------------------------------------------------
(* The nine CSV files and the nine tables read from them *)

Files == <<"Owners.csv", "Visits.csv", "Buyers.csv", "home_inspection.csv",
           "Homes.csv", "home_catalogue.csv", "price-history-new.csv",
           "offers.csv", "Admins.csv">>

TableNames == <<"owners", "visits", "buyers", "inspections", "homes",
                "catalogue", "price_hist", "offers", "admins">>

FileSet == Range(Files)
TableSet == Range(TableNames)

FileOf(t) == Files[CHOOSE i \in 1..Len(TableNames) : TableNames[i] = t]

\* the columns parse_dt is asked to convert, per file
DateCols(f) ==
    CASE f = "Owners.csv" -> {"created"}
      [] f = "Visits.csv" -> {"sched"}
      [] f = "Buyers.csv" -> {"created"}
      [] f = "home_inspection.csv" -> {"on"}
      [] f = "Homes.csv" -> {"created", "off"}
      [] f = "price-history-new.csv" -> {"date"}
      [] f = "offers.csv" -> {"date"}
      [] OTHER -> {}

\* pd.to_datetime(errors='coerce'): a cell that is no date becomes NaT
ToDatetime(cell) == IF cell >= 0 THEN cell ELSE NaT

\* parse_dt(df, cols) on one row
ParseRow(row, cols) ==
    [k \in DOMAIN row |-> IF k \in cols THEN ToDatetime(row[k]) ELSE row[k]]

parse_dt(rows, cols) == [i \in 1..Len(rows) |-> ParseRow(rows[i], cols)]

\* visits['Project'] = visits['Homes_Visited'].str.split('_').str[0]
AddProject(rows) ==
    [i \in 1..Len(rows) |->
        [k \in DOMAIN rows[i] \cup {"project"} |->
            IF k = "project" THEN SplitFirst(rows[i].homes) ELSE rows[i][k]]]

\* catalogue['has_floor_plan'] = 1 if notna(x) and 'https' in str(x) else 0
AddHasFloorPlan(rows) ==
    [i \in 1..Len(rows) |->
        [k \in DOMAIN rows[i] \cup {"has_floor_plan"} |->
            IF k = "has_floor_plan"
            THEN (IF rows[i].plan # NaN /\ Contains(rows[i].plan, Https) THEN 1 ELSE 0)
            ELSE rows[i][k]]]

\* pd.DataFrame(): no columns, no rows
EmptyFrame == [cols |-> FALSE, rows |-> <<>>]
EmptyTables == [t \in TableSet |-> EmptyFrame]

\* the first statement of the try block that raises, "" when none does
FirstError(c) ==
    IF c.unreadable # {}
    THEN Files[Min({i \in 1..Len(Files) : Files[i] \in c.unreadable})]
    ELSE IF "Visits.csv" \in c.nocol THEN "Homes_Visited"
    ELSE IF "home_catalogue.csv" \in c.nocol THEN "Media/Floor Plan"
    ELSE ""

\* the try block of load_all_data when nothing raises
ReadAll(c) ==
    [t \in TableSet |->
        LET parsed == parse_dt(c.rows[FileOf(t)], DateCols(FileOf(t)))
        IN [cols |-> TRUE,
            rows |-> CASE t = "visits" -> AddProject(parsed)
                       [] t = "catalogue" -> AddHasFloorPlan(parsed)
                       [] OTHER -> parsed]]

\* load_all_data returning, after an error, the tables it had read so far
load_all_data_partial(c) ==
    IF FirstError(c) # ""
    THEN [t |-> [t \in TableSet |->
                    IF /\ FirstError(c) \in FileSet
                       /\ \E i, j \in 1..Len(Files) :
                             i < j /\ Files[i] = FileOf(t) /\ Files[j] = FirstError(c)
                    THEN ReadAll(c)[t] ELSE EmptyFrame],
          err |-> FirstError(c)]
    ELSE [t |-> ReadAll(c), err |-> ""]

\* the body of load_all_data: what it returns and the error it shows
load_all_data(c) ==
    IF FirstError(c) # ""
    THEN [t |-> EmptyTables, err |-> FirstError(c)]
    ELSE [t |-> ReadAll(c), err |-> ""]

-----------------------------------------------------------------------------
(* Stages of the pipeline, as tags appended to trace *)

StageRank(tag) ==
    CASE tag = "load" -> 1
      [] tag = "derive" -> 2
      [] tag = "filter" -> 3
      [] tag = "aggregate" -> 4
      [] tag = "render" -> 5

TableStages == {"filter", "aggregate", "render"}

NoPeriod == [start_dt |-> NaT, end_dt |-> NaT, period_days |-> 0,
             prev_start |-> NaT, prev_end |-> NaT, set |-> FALSE]

NoAgg == [lo_data |-> <<>>, lo_pts |-> <<>>, va_pts |-> <<>>, ins_pts |-> {}]

NoShown == [table |-> <<>>, tabled |-> FALSE, supply |-> <<>>, sku |-> <<>>,
            funnel |-> <<>>]

\* what a fresh run of the script starts from: nothing computed yet
PassStart ==
    /\ pc' = "load"
    /\ outcome' = "running"
    /\ tables' = EmptyTables
    /\ err_shown' = ""
    /\ period' = NoPeriod
    /\ email_to_name' = <<>>
    /\ manual_entries' = <<>>
    /\ cv' = <<>>
    /\ cv_comp' = <<>>
    /\ ci' = <<>>
    /\ agg' = NoAgg
    /\ leaderboard' = <<>>
    /\ shown' = NoShown
    /\ trace' = <<>>

\* the script ends: normally, by st.stop(), or by an uncaught exception
Finish(how) ==
    /\ pc' = "idle"
    /\ outcome' = how

-----------------------------------------------------------------------------
(* Lines 25-47: owners, ..., admins = load_all_data(), under st.cache_data *)

\* load_all_data writing the pre-processed visits back to Visits.csv
LoadAllDataSaving ==
    /\ pc = "load"
    /\ LET res == IF cache = <<>> THEN load_all_data(csv) ELSE cache[1]
       IN /\ cache' = <<res>>
          /\ tables' = res.t
          /\ err_shown' = res.err
          /\ csv' = [csv EXCEPT !.rows["Visits.csv"] = res.t.visits.rows]
          /\ trace' = trace \o (IF res.err = "" THEN <<"load", "derive">>
                                ELSE <<"load">>)
    /\ pc' = "sidebar"
    /\ UNCHANGED <<widgets, outcome, period, email_to_name, manual_entries,
                   cv, cv_comp, ci, agg, leaderboard, shown>>

LoadAllData ==
    /\ pc = "load"
    /\ LET res == IF cache = <<>> THEN load_all_data(csv) ELSE cache[1]
       IN /\ cache' = <<res>>
          /\ tables' = res.t
          /\ err_shown' = res.err
          /\ trace' = trace \o (IF res.err = "" THEN <<"load", "derive">>
                                ELSE <<"load">>)
    /\ pc' = "sidebar"
    /\ UNCHANGED <<csv, widgets, outcome, period, email_to_name, manual_entries,
                   cv, cv_comp, ci, agg, leaderboard, shown>>

(* Lines 52-61: the date widget and the two periods *)

\* the periods with period_days taken as the bare difference of the dates
PeriodNoPlusOne(date_range) ==
    LET start_dt == Midnight(date_range[1])
        end_dt == Midnight(date_range[2])
        period_days == DaysBetween(end_dt, start_dt)
    IN [start_dt |-> start_dt,
        end_dt |-> end_dt,
        period_days |-> period_days,
        prev_start |-> start_dt - Days(period_days),
        prev_end |-> start_dt - Days(1),
        set |-> TRUE]

Period(date_range) ==
    LET start_dt == Midnight(date_range[1])
        end_dt == Midnight(date_range[2])
        period_days == DaysBetween(end_dt, start_dt) + 1
    IN [start_dt |-> start_dt,
        end_dt |-> end_dt,
        period_days |-> period_days,
        prev_start |-> start_dt - Days(period_days),
        prev_end |-> start_dt - Days(1),
        set |-> TRUE]

\* the date widget falling back to the first day instead of stopping
DateInputNoStop ==
    /\ pc = "sidebar"
    /\ period' = Period(IF Len(widgets.date_range) = 2 THEN widgets.date_range
                        ELSE <<0, 0>>)
    /\ pc' = "mapping"
    /\ UNCHANGED <<csv, cache, widgets, outcome, tables, err_shown, email_to_name,
                   manual_entries, cv, cv_comp, ci, agg, leaderboard, shown, trace>>

DateInput ==
    /\ pc = "sidebar"
    /\ IF Len(widgets.date_range) = 2
       THEN /\ period' = Period(widgets.date_range)
            /\ pc' = "mapping"
            /\ UNCHANGED outcome
       ELSE /\ Finish("stopped")
            /\ UNCHANGED period
    /\ UNCHANGED <<csv, cache, widgets, tables, err_shown, email_to_name,
                   manual_entries, cv, cv_comp, ci, agg, leaderboard, shown, trace>>

-----------------------------------------------------------------------------
(* Lines 64-70: the mapping helper *)

\* a missing 'Lead Phone'
NoPhone == 0

RECURSIVE DictPut(_, _, _)
\* d[key] = value on an insertion-ordered dict: a key keeps its first place
DictPut(d, key, value) ==
    IF d = <<>> THEN <<[email |-> key, name |-> value]>>
    ELSE IF Head(d).email = key THEN <<[email |-> key, name |-> value]>> \o Tail(d)
    ELSE <<Head(d)>> \o DictPut(Tail(d), key, value)

RECURSIVE ToDict(_)
\* admins.set_index('Email')['First Name'].to_dict()
ToDict(rows) ==
    IF rows = <<>> THEN <<>>
    ELSE LET last == rows[Len(rows)]
         IN DictPut(ToDict(SubSeq(rows, 1, Len(rows) - 1)), last.email, last.first)

\* get_name comparing the value without stripping it
get_name_unstripped(e2n, val) ==
    IF val = NaN THEN Unknown
    ELSE LET v == Lower(val)
             hits == {i \in 1..Len(e2n) : Lower(e2n[i].email) = v}
         IN IF hits # {} THEN e2n[Min(hits)].name ELSE val

\* get_name(val), with email_to_name passed as e2n
get_name(e2n, val) ==
    IF val = NaN THEN Unknown
    ELSE LET v == Lower(Strip(val))
             hits == {i \in 1..Len(e2n) : Lower(e2n[i].email) = v}
         IN IF hits # {} THEN e2n[Min(hits)].name ELSE val

RECURSIVE Unique(_)
\* Series.unique(): the distinct values in order of first appearance
Unique(s) ==
    IF s = <<>> THEN <<>>
    ELSE LET init == Unique(SubSeq(s, 1, Len(s) - 1))
         IN IF s[Len(s)] \in Range(init) THEN init ELSE Append(init, s[Len(s)])

FirstNames(admins) == Unique([i \in 1..Len(admins) |-> admins[i].first])

Mapping ==
    /\ pc = "mapping"
    /\ IF tables.admins.cols
       THEN /\ email_to_name' = ToDict(tables.admins.rows)
            /\ pc' = "admin"
            /\ UNCHANGED outcome
       ELSE \* KeyError: 'Email' on the empty frame of a failed load
            /\ Finish("crashed")
            /\ UNCHANGED email_to_name
    /\ UNCHANGED <<csv, cache, widgets, tables, err_shown, period, manual_entries,
                   cv, cv_comp, ci, agg, leaderboard, shown, trace>>

(* Lines 76-88: the Admin tab *)

\* the value of a number_input keyed by person, 0 until the user sets it
WidgetCount(w, person) == IF person \in DOMAIN w THEN w[person] ELSE 0

ManualEntries(w, admins) ==
    [person \in Range(FirstNames(admins)) |->
        (WidgetCount(w.tours, person) * w.tour_pts)
        + (WidgetCount(w.ratings, person) * w.rating_pts)]

AdminTab ==
    /\ pc = "admin"
    /\ manual_entries' = ManualEntries(widgets, tables.admins.rows)
    /\ pc' = "lb_filter"
    /\ UNCHANGED <<csv, cache, widgets, outcome, tables, err_shown, period,
                   email_to_name, cv, cv_comp, ci, agg, leaderboard, shown, trace>>

-----------------------------------------------------------------------------
(* Lines 94-97: the leaderboard's filters *)

\* df[(df[col] >= lo) & (df[col] <= hi)]
Between(rows, col, lo, hi) ==
    SelectIdx(rows, {i \in 1..Len(rows) : InRange(rows[i][col], lo, hi)}, 1)

\* the completed visits of the whole table instead of the period's
CompletedOfAllVisits(rows) ==
    SelectIdx(tables.visits.rows,
              {i \in 1..Len(tables.visits.rows) :
                  tables.visits.rows[i].status = Completed}, 1)

\* cv[cv['Status/Visit_status'] == 'Completed']
CompletedOf(rows) ==
    SelectIdx(rows, {i \in 1..Len(rows) : rows[i].status = Completed}, 1)

LeaderboardFilter ==
    /\ pc = "lb_filter"
    /\ cv' = Between(tables.visits.rows, "sched", period.start_dt, period.end_dt)
    /\ cv_comp' = CompletedOf(cv')
    /\ ci' = Between(tables.inspections.rows, "on", period.start_dt, period.end_dt)
    /\ trace' = trace \o <<"filter">>
    /\ pc' = "lb_points"
    /\ UNCHANGED <<csv, cache, widgets, outcome, tables, err_shown, period,
                   email_to_name, manual_entries, agg, leaderboard, shown>>

(* Lines 99-122: points and the leaderboard rows *)

\* the rows of one groupby('Lead Phone') group, in table order
Group(rows, phone) ==
    SelectIdx(rows, {i \in 1..Len(rows) : rows[i].phone = phone}, 1)

\* the groupby keys: missing keys are dropped
Keys(rows, col, missing) == {rows[i][col] : i \in 1..Len(rows)} \ {missing}

\* any earlier visit of this phone, completed or not
PastAnyStatus(visits, phone, start_dt) ==
    SelectIdx(visits, {i \in 1..Len(visits) :
        /\ visits[i].phone = phone
        /\ Lt(visits[i].sched, start_dt)}, 1)

\* line 104: completed visits of this phone before the period
Past(visits, phone, start_dt) ==
    SelectIdx(visits, {i \in 1..Len(visits) :
        /\ visits[i].phone = phone
        /\ Lt(visits[i].sched, start_dt)
        /\ visits[i].done = TRUE}, 1)

\* line 105
is_rv(visits, group, phone, start_dt) ==
    \/ Past(visits, phone, start_dt) # <<>>
    \/ Cardinality({DateOf(group[i].sched) : i \in 1..Len(group)}) > 1

RECURSIVE LoDataLastOwner(_, _, _, _, _)
\* lo_data crediting the owner of the lead's last visit, not of its first
LoDataLastOwner(phones, visits, comp, e2n, start_dt) ==
    IF phones = {} THEN <<>>
    ELSE LET phone == Min(phones)
             group == Group(comp, phone)
             owner == get_name(e2n, group[Len(group)].owner)
         IN <<[Person |-> owner,
               Pts |-> IF Past(visits, phone, start_dt) # <<>>
                          \/ Cardinality({DateOf(group[i].sched) : i \in 1..Len(group)}) > 1
                       THEN PtsRepeatVisit ELSE PtsFirstVisit]>>
            \o LoDataLastOwner(phones \ {phone}, visits, comp, e2n, start_dt)

RECURSIVE LoData(_, _, _, _, _)
\* lines 100-106: one entry per phone, phones in ascending order
LoData(phones, visits, comp, e2n, start_dt) ==
    IF phones = {} THEN <<>>
    ELSE LET phone == Min(phones)
             group == Group(comp, phone)
             owner == get_name(e2n, group[1].owner)
         IN <<[Person |-> owner,
               Pts |-> IF is_rv(visits, group, phone, start_dt)
                       THEN PtsRepeatVisit ELSE PtsFirstVisit]>>
            \o LoData(phones \ {phone}, visits, comp, e2n, start_dt)

\* pd.DataFrame(lo_data).groupby('Person')['Pts'].sum()
LoPts(lo_data) ==
    [person \in {lo_data[i].Person : i \in 1..Len(lo_data)} |->
        LET idx == {i \in 1..Len(lo_data) : lo_data[i].Person = person}
        IN SumOver([i \in idx |-> lo_data[i].Pts], idx)]

\* cv_comp.groupby('WA_Msg/VA_Name').size() * 4
VaPts(comp) ==
    [name \in Keys(comp, "va", NaN) |->
        Count(comp, {i \in 1..Len(comp) : comp[i].va = name}) * PtsManaged]

\* ci.groupby('Inspected By').size() * 4 with its index renamed by get_name:
\* one entry per distinct 'Inspected By', labels may repeat
InsPts(insp, e2n) ==
    {[label |-> get_name(e2n, by), raw |-> by,
      pts |-> Count(insp, {i \in 1..Len(insp) : insp[i].by = by}) * PtsInspection]
        : by \in Keys(insp, "by", NaN)}

\* Series.get(p, 0) on a Series with a unique index
Get(series, p) == IF p \in DOMAIN series THEN series[p] ELSE 0

\* lo_pts.get(p,0) + va_pts.get(p,0) + ins_pts.get(p,0) + manual_entries.get(p,0):
\* ins_pts.get(p) is a number when at most one label is p and the Series of all
\* entries labelled p otherwise, and adding numbers to a Series gives a Series
TotalScore(a, manual, p) ==
    LET base == Get(a.lo_pts, p) + Get(a.va_pts, p) + Get(manual, p)
        hits == {e \in a.ins_pts : e.label = p}
    IN IF Cardinality(hits) > 1
       THEN [kind |-> "series", val |-> 0,
             vals |-> {[raw |-> e.raw, val |-> base + e.pts] : e \in hits}]
       ELSE [kind |-> "scalar",
             val |-> base + SumOver([e \in hits |-> e.pts], hits),
             vals |-> {}]

\* df[df[col].apply(get_name) == p].shape[0]
CountNamed(rows, col, e2n, p) ==
    Count(rows, {i \in 1..Len(rows) : get_name(e2n, rows[i][col]) = p})

\* lines 113-122
Leaderboard(a, manual, e2n, admins, sched, comp, insp) ==
    LET people == FirstNames(admins)
    IN [k \in 1..Len(people) |->
          LET p == people[k]
          IN [Person |-> p,
              Total |-> TotalScore(a, manual, p),
              Scheduled |-> CountNamed(sched, "owner", e2n, p),
              Completed |-> CountNamed(comp, "owner", e2n, p),
              Managed |-> Count(comp, {i \in 1..Len(comp) : comp[i].va = p}),
              Inspections |-> CountNamed(insp, "by", e2n, p)]]

Aggregates(visits, comp, insp, e2n, start_dt) ==
    LET lo_data == LoData(Keys(comp, "phone", NoPhone), visits, comp, e2n, start_dt)
    IN [lo_data |-> lo_data,
        lo_pts |-> LoPts(lo_data),
        va_pts |-> VaPts(comp),
        ins_pts |-> InsPts(insp, e2n)]

LeaderboardPoints ==
    /\ pc = "lb_points"
    /\ agg' = Aggregates(tables.visits.rows, cv_comp, ci, email_to_name,
                         period.start_dt)
    /\ leaderboard' = Leaderboard(agg', manual_entries, email_to_name,
                                  tables.admins.rows, cv, cv_comp, ci)
    /\ trace' = trace \o <<"aggregate">>
    /\ pc' = "lb_render"
    /\ UNCHANGED <<csv, cache, widgets, outcome, tables, err_shown, period,
                   email_to_name, manual_entries, cv, cv_comp, ci, shown>>

(* Line 124: the leaderboard table *)

RECURSIVE InsertDesc(_, _)
\* place row behind every row whose score is not smaller (ties keep their order)
InsertDesc(sorted, row) ==
    IF sorted = <<>> THEN <<row>>
    ELSE IF Head(sorted).Total.val >= row.Total.val
         THEN <<Head(sorted)>> \o InsertDesc(Tail(sorted), row)
         ELSE <<row>> \o sorted

RECURSIVE SortDesc(_)
\* sort_values("Total Score", ascending=False)
SortDesc(rows) ==
    IF rows = <<>> THEN <<>>
    ELSE InsertDesc(SortDesc(SubSeq(rows, 1, Len(rows) - 1)), rows[Len(rows)])

HasSeries(rows) == \E i \in 1..Len(rows) : rows[i].Total.kind = "series"

\* whether line 124 raises: no admins leaves a frame without a "Total Score"
\* column (KeyError); a Series in a cell cannot be ordered against the other
\* cells (ValueError), and with a single row nothing is compared and the cell
\* then reaches the table renderer, which may or may not accept it
RenderRaises(rows) ==
    IF rows = <<>> THEN {TRUE}
    ELSE IF ~HasSeries(rows) THEN {FALSE}
    ELSE IF Len(rows) > 1 THEN {TRUE}
    ELSE BOOLEAN

LeaderboardRender ==
    /\ pc = "lb_render"
    /\ \E raises \in RenderRaises(leaderboard) :
          IF raises
          THEN /\ Finish("crashed")
               /\ UNCHANGED <<shown, trace>>
          ELSE /\ shown' = [shown EXCEPT
                               !.table = IF HasSeries(leaderboard) THEN leaderboard
                                         ELSE SortDesc(leaderboard),
                               !.tabled = TRUE]
               /\ trace' = trace \o <<"render">>
               /\ pc' = "supply"
               /\ UNCHANGED outcome
    /\ UNCHANGED <<csv, cache, widgets, tables, err_shown, period, email_to_name,
                   manual_entries, cv, cv_comp, ci, agg, leaderboard>>

-----------------------------------------------------------------------------
(* Lines 127-142: the Supply tab *)

\* len(df[(df[col] >= lo) & (df[col] <= hi)])
CountBetween(rows, col, lo, hi) == Len(Between(rows, col, lo, hi))

\* line 141: the summed ask price of the churned homes on hold or sold
Regret(homes, lo, hi) ==
    LET churn == Between(homes, "off", lo, hi)
        idx == {i \in 1..Len(churn) : churn[i].status \in {"On Hold", "Sold"}}
    IN SumOver([i \in idx |-> churn[i].price], idx)

Supply(t, per) ==
    LET c_leads == CountBetween(t.owners.rows, "created", per.start_dt, per.end_dt)
        p_leads == CountBetween(t.owners.rows, "created", per.prev_start, per.prev_end)
        h_on == CountBetween(t.homes.rows, "created", per.start_dt, per.end_dt)
        p_h_on == CountBetween(t.homes.rows, "created", per.prev_start, per.prev_end)
    IN [c_leads |-> c_leads, p_leads |-> p_leads, leads_delta |-> c_leads - p_leads,
        h_on |-> h_on, p_h_on |-> p_h_on, homes_delta |-> h_on - p_h_on,
        regret |-> Regret(t.homes.rows, per.start_dt, per.end_dt)]

SupplyTab ==
    /\ pc = "supply"
    /\ shown' = [shown EXCEPT !.supply = <<Supply(tables, period)>>]
    /\ trace' = trace \o <<"filter", "aggregate", "render",
                           "filter", "aggregate", "render">>
    /\ pc' = "sku"
    /\ UNCHANGED <<csv, cache, widgets, outcome, tables, err_shown, period,
                   email_to_name, manual_entries, cv, cv_comp, ci, agg, leaderboard>>

(* Lines 145-157: the SKU tab *)

\* cv.groupby('Project').size()
ProjectSizes(sched) ==
    [project \in Keys(sched, "project", NaN) |->
        Count(sched, {i \in 1..Len(sched) : sched[i].project = project})]

Sku(t, sched) ==
    [live_count |-> Count(t.homes.rows,
                          {i \in 1..Len(t.homes.rows) : t.homes.rows[i].status = "Live"}),
     fp_count |-> Count(t.catalogue.rows,
                        {i \in 1..Len(t.catalogue.rows) :
                            t.catalogue.rows[i].has_floor_plan = 1}),
     top_projects |-> ProjectSizes(sched)]

SkuTab ==
    /\ pc = "sku"
    /\ shown' = [shown EXCEPT !.sku = <<Sku(tables, cv)>>]
    /\ trace' = trace \o <<"filter", "aggregate", "render",
                           "filter", "aggregate", "render",
                           "aggregate", "render">>
    /\ pc' = "demand"
    /\ UNCHANGED <<csv, cache, widgets, outcome, tables, err_shown, period,
                   email_to_name, manual_entries, cv, cv_comp, ci, agg, leaderboard>>

(* Lines 160-170: the Demand tab *)

\* Series.nunique(): missing values are not counted
NUnique(rows, col, missing) == Cardinality(Keys(rows, col, missing))

Funnel(t, per, sched, comp) ==
    LET b_leads == Between(t.buyers.rows, "created", per.start_dt, per.end_dt)
    IN <<NUnique(b_leads, "phone", NoPhone),
         NUnique(sched, "phone", NoPhone),
         NUnique(comp, "phone", NoPhone)>>

DemandTab ==
    /\ pc = "demand"
    /\ shown' = [shown EXCEPT !.funnel = Funnel(tables, period, cv, cv_comp)]
    /\ trace' = trace \o <<"filter", "aggregate", "render">>
    /\ Finish("done")
    /\ UNCHANGED <<csv, cache, widgets, tables, err_shown, period, email_to_name,
                   manual_entries, cv, cv_comp, ci, agg, leaderboard>>

\* one run of the script, top to bottom
Pass ==
    \/ LoadAllData
    \/ DateInput
    \/ Mapping
    \/ AdminTab
    \/ LeaderboardFilter
    \/ LeaderboardPoints
    \/ LeaderboardRender
    \/ SupplyTab
    \/ SkuTab
    \/ DemandTab

-----------------------------------------------------------------------------
(* UI interactions: a widget changes and the script is run again *)

\* what st.sidebar.date_input can return: both dates, or only the first while
\* the user is still choosing the second
FullRanges == {r \in (0..MaxDay) \X (0..MaxDay) : r[1] <= r[2]}
PartialRanges == {<<>>} \cup {<<s>> : s \in 0..MaxDay}
DateRanges == FullRanges \cup PartialRanges

\* the widget values of a fresh session: the code's default period, no counts
DefaultWidgets(date_range) ==
    [date_range |-> date_range, tour_pts |-> DefaultTourPts,
     rating_pts |-> DefaultRatingPts, tours |-> <<>>, ratings |-> <<>>]

\* values the user may type into the two points inputs
PointChoices == {DefaultTourPts, DefaultRatingPts}

\* the persons whose Tours / Ratings inputs the last pass has drawn
DrawnPersons == DOMAIN manual_entries

ChangeDate ==
    /\ \E r \in DateRanges : widgets' = [widgets EXCEPT !.date_range = r]
    /\ PassStart
    /\ UNCHANGED <<csv, cache>>

ChangeTourPts ==
    /\ \E n \in PointChoices : widgets' = [widgets EXCEPT !.tour_pts = n]
    /\ PassStart
    /\ UNCHANGED <<csv, cache>>

ChangeRatingPts ==
    /\ \E n \in PointChoices : widgets' = [widgets EXCEPT !.rating_pts = n]
    /\ PassStart
    /\ UNCHANGED <<csv, cache>>

ChangeTours ==
    /\ \E person \in DrawnPersons, n \in 0..MaxManual :
          widgets' = [widgets EXCEPT !.tours = (person :> n) @@ widgets.tours]
    /\ PassStart
    /\ UNCHANGED <<csv, cache>>

ChangeRatings ==
    /\ \E person \in DrawnPersons, n \in 0..MaxManual :
          widgets' = [widgets EXCEPT !.ratings = (person :> n) @@ widgets.ratings]
    /\ PassStart
    /\ UNCHANGED <<csv, cache>>

Interact ==
    \/ ChangeDate
    \/ ChangeTourPts
    \/ ChangeRatingPts
    \/ ChangeTours
    \/ ChangeRatings

Next == Pass \/ Interact

-----------------------------------------------------------------------------
(* The files the program is started on *)

VisitRow(sched, status, done, phone, owner, va) ==
    [sched |-> sched, status |-> status, done |-> done, phone |-> phone,
     owner |-> owner, va |-> va, homes |-> HomesP1]

InspRow(on, by) == [on |-> on, by |-> by]
OwnerRow(created) == [created |-> created]
AdminRow(email, first) == [email |-> email, first |-> first]

\* all tables of at most n rows drawn from rows
TablesOf(rows, n) == UNION {[1..k -> rows] : k \in 0..n}

\* every timestamp of the days 0..MaxDay
Times == 0..(Midnight(MaxDay + 1) - 1)
\* a date cell as it stands in a file: a timestamp, empty, or no date at all
BadDate == -2
DateCells == Times \cup {NaT, BadDate}

DefaultAdmins == <<AdminRow(MailA, Ann), AdminRow(MailB, Bob)>>

DefaultRows ==
    [f \in FileSet |->
        CASE f = "Owners.csv" -> <<OwnerRow(0), OwnerRow(Midnight(1) + 1)>>
          [] f = "Visits.csv" ->
                <<VisitRow(0, Completed, TRUE, 1, MailAUpper, Bob),
                  VisitRow(Midnight(1), Completed, TRUE, 1, Bob, Ann)>>
          [] f = "Buyers.csv" ->
                <<[created |-> Midnight(1), phone |-> 1],
                  [created |-> NaT, phone |-> 2]>>
          [] f = "home_inspection.csv" -> <<InspRow(Midnight(1), MailA)>>
          [] f = "Homes.csv" ->
                <<[created |-> 0, off |-> NaT, status |-> "Live", price |-> 90],
                  [created |-> 0, off |-> Midnight(1), status |-> "Sold", price |-> 70]>>
          [] f = "home_catalogue.csv" -> <<[plan |-> HttpsPlan], [plan |-> HttpPlan],
                                           [plan |-> NaN]>>
          [] f = "price-history-new.csv" -> <<[date |-> 0]>>
          [] f = "offers.csv" -> <<[date |-> BadDate]>>
          [] f = "Admins.csv" -> DefaultAdmins]

\* files with a header line and no rows
HeaderOnly == [f \in FileSet |-> <<>>]

\* the columns the pre-processing of lines 39-40 needs
PreprocessedFiles == {"Visits.csv", "home_catalogue.csv"}

StartOn(c, w) ==
    /\ csv = c
    /\ cache = <<>>
    /\ widgets = w
    /\ pc = "load"
    /\ outcome = "running"
    /\ tables = EmptyTables
    /\ err_shown = ""
    /\ period = NoPeriod
    /\ email_to_name = <<>>
    /\ manual_entries = <<>>
    /\ cv = <<>>
    /\ cv_comp = <<>>
    /\ ci = <<>>
    /\ agg = NoAgg
    /\ leaderboard = <<>>
    /\ shown = NoShown
    /\ trace = <<>>

Readable(rows) == [rows |-> rows, unreadable |-> {}, nocol |-> {}]

\* the whole program on a few file sets, any file missing or lacking a column
Init ==
    \E rows \in {DefaultRows, HeaderOnly},
       unreadable \in {{}} \cup {{f} : f \in FileSet} \cup {{"Visits.csv", "offers.csv"}},
       nocol \in SUBSET PreprocessedFiles :
        StartOn([rows |-> rows, unreadable |-> unreadable, nocol |-> nocol],
                DefaultWidgets(<<0, 1>>))

Spec == Init /\ [][Next]_vars

-----------------------------------------------------------------------------
(* One pass over every small visits table *)

\* visits of one agent that differ in time, status, completion flag and lead
RepeatRows ==
    {VisitRow(sched, status, done, phone, Bob, Ann) :
        sched \in Times, status \in {Completed, Scheduled},
        done \in BOOLEAN, phone \in {1, 2}}

\* visits on one day that differ in status, lead and lead owner
OwnedRows ==
    {VisitRow(sched, status, FALSE, phone, owner, Ann) :
        sched \in {Midnight(1), Midnight(1) + 1}, status \in {Completed, Scheduled},
        phone \in {1, 2}, owner \in {MailAUpper, Bob}}

\* visits with a missing date, phone, owner or visit assistant
MissingRows ==
    {VisitRow(sched, status, status = Completed, phone, owner, va) :
        sched \in {Midnight(1), NaT}, status \in {Completed, Scheduled},
        phone \in {1, NoPhone}, owner \in {Bob, NaN}, va \in {Bob, NaN}}

WithVisits(visits) == [DefaultRows EXCEPT !["Visits.csv"] = visits]

BoardInputs ==
    (TablesOf(RepeatRows, MaxVisits) \X {<<1, 1>>, <<1, 2>>, <<0, 2>>})
    \cup (TablesOf(OwnedRows, MaxVisits) \X FullRanges)
    \cup (TablesOf(MissingRows, MaxVisits) \X {<<0, 1>>, <<1, 1>>})

InitBoard ==
    \E in \in BoardInputs :
        StartOn(Readable(WithVisits(in[1])), DefaultWidgets(in[2]))

SpecBoard == InitBoard /\ [][Pass]_vars

-----------------------------------------------------------------------------
(* One pass over every small admins table *)

AdminRows ==
    {AdminRow(email, first) :
        email \in {MailA, MailAMixed, MailAPadded, MailB},
        first \in {Ann, Bob, Unknown}}

\* what an owner cell may hold
OwnerCells == {NaN, MailA, MailAUpperPadded, MailAPadded, MailB, Ann, AnnPadded,
               Bob, Unknown}

InspRows == {InspRow(Midnight(1), by) : by \in {NaN, MailA, MailAUpperPadded, Ann}}

NameInputs ==
    [admins : TablesOf(AdminRows, MaxAdmins),
     visits : {<<VisitRow(Midnight(1), Completed, TRUE, 1, owner, Ann)>> :
                  owner \in OwnerCells},
     insp : {<<InspRow(Midnight(1), MailA)>>}]
    \cup
    [admins : TablesOf(AdminRows, MaxAdmins),
     visits : {<<VisitRow(Midnight(1), Completed, TRUE, 1, Bob, Ann)>>},
     insp : TablesOf(InspRows, MaxInsp)]

InitName ==
    \E in \in NameInputs :
        StartOn(Readable([DefaultRows EXCEPT !["Admins.csv"] = in.admins,
                                             !["Visits.csv"] = in.visits,
                                             !["home_inspection.csv"] = in.insp]),
                DefaultWidgets(<<0, 1>>))

SpecName == InitName /\ [][Pass]_vars

-----------------------------------------------------------------------------
(* One pass over every small owners table and every date selection *)

PeriodInputs ==
    [owners : TablesOf({OwnerRow(created) : created \in DateCells}, MaxOwners),
     visits : {DefaultRows["Visits.csv"]},
     insp : {DefaultRows["home_inspection.csv"]}]
    \cup
    [owners : {DefaultRows["Owners.csv"]},
     visits : {<<VisitRow(sched, Completed, TRUE, 1, Bob, Ann)>> : sched \in Times},
     insp : {<<InspRow(on, Ann)>> : on \in Times}]

InitPeriod ==
    \E in \in PeriodInputs, range \in DateRanges :
        StartOn(Readable([DefaultRows EXCEPT !["Owners.csv"] = in.owners,
                                             !["Visits.csv"] = in.visits,
                                             !["home_inspection.csv"] = in.insp]),
                DefaultWidgets(range))

SpecPeriod == InitPeriod /\ [][Pass]_vars

-----------------------------------------------------------------------------
(* Claims *)

\* the two dates of the selection the pass has read
SelStart == widgets.date_range[1]
SelEnd == widgets.date_range[2]

\* the rows of a table whose timestamp falls on a calendar day from..to
OnDays(rows, col, from, to) ==
    {i \in 1..Len(rows) : rows[i][col] # NaT /\ DateOf(rows[i][col]) \in from..to}

\* C1: for every admin first name p on the leaderboard, Total Score(p) is a
\* number, the sum of the visit points credited to p, 4 times p's 'Visits
\* Managed', 4 times p's 'Inspections' and p's manual override
\* (tours x tour points + ratings x rating points).
C1_ScoreIsSumOfFour ==
    \A k \in 1..Len(leaderboard) :
        LET row == leaderboard[k]
            p == row.Person
        IN /\ row.Total.kind = "scalar"
           /\ row.Total.val =
                 Get(agg.lo_pts, p)
                 + (PtsManaged * row.Managed)
                 + (PtsInspection * row.Inspections)
                 + (WidgetCount(widgets.tours, p) * widgets.tour_pts)
                 + (WidgetCount(widgets.ratings, p) * widgets.rating_pts)

\* C7: for a selected period [start, end] with start <= end the previous period
\* has as many days as the current one (end - start + 1), ends on the day
\* before start, and so touches the current period without overlapping it.
C7_PrevPeriodAdjacent ==
    period.set =>
        /\ period.period_days = SelEnd - SelStart + 1
        /\ DateOf(period.prev_end) - DateOf(period.prev_start) + 1
              = SelEnd - SelStart + 1
        /\ DateOf(period.prev_end) = SelStart - 1
        /\ period.prev_start <= period.prev_end
        /\ period.prev_end < period.start_dt
        /\ DateOf(period.start_dt) = SelStart
        /\ DateOf(period.end_dt) = SelEnd

\* C7 witness: a pass has computed the periods of a selection of several days
C7_Witness ==
    /\ period.set
    /\ SelStart < SelEnd
    /\ SelStart > 0
    /\ pc = "idle"

\* C9: the date filter covers whole calendar days: every record dated on a day
\* from start through end, at any time of day, is counted in the current
\* period, and every record dated on a day from prev_start through prev_end in
\* the previous period.
C9_WholeDaysCounted ==
    shown.supply # <<>> =>
        /\ shown.supply[1].c_leads
              = Cardinality(OnDays(tables.owners.rows, "created", SelStart, SelEnd))
        /\ shown.supply[1].p_leads
              = Cardinality(OnDays(tables.owners.rows, "created",
                                   SelStart - (SelEnd - SelStart + 1), SelStart - 1))
        /\ Len(cv) = Cardinality(OnDays(tables.visits.rows, "sched", SelStart, SelEnd))
        /\ Len(ci) = Cardinality(OnDays(tables.inspections.rows, "on", SelStart, SelEnd))


\* the leaderboard's points have been computed in this pass
Aggregated == "aggregate" \in Range(trace)

\* the leads with a completed visit the period filter has kept
Leads == Keys(cv_comp, "phone", NoPhone)

\* the points entered in lo_data for a lead: entries are in ascending phone order
PtsOf(phone) == agg.lo_data[Cardinality({q \in Leads : q <= phone})].Pts

\* the agent a lead's points go to: the resolved owner of the lead's first
\* completed in-period row of the visits table
CreditedTo(phone) ==
    get_name(email_to_name,
             cv_comp[Min({i \in 1..Len(cv_comp) : cv_comp[i].phone = phone})].owner)

\* every name a row or an admin can stand for
Persons ==
    Range(FirstNames(tables.admins.rows))
    \cup {get_name(email_to_name, cv_comp[i].owner) : i \in 1..Len(cv_comp)}

\* C2 as stated: an agent's visit points are the sum, over the completed
\* in-period visits the agent owns (the rows of 'Completed (MTD)'), of 3 for a
\* first-time lead and 7 for a repeat lead.  Stated for tables in which every
\* completed visit has a lead phone.
C2_EveryVisitScores ==
    (Aggregated /\ \A i \in 1..Len(cv_comp) : cv_comp[i].phone # NoPhone) =>
        \A p \in Persons :
            LET mine == {i \in 1..Len(cv_comp) :
                            get_name(email_to_name, cv_comp[i].owner) = p}
            IN Get(agg.lo_pts, p)
                  = SumOver([i \in mine |-> PtsOf(cv_comp[i].phone)], mine)

\* C2 amended: every lead phone with a completed visit kept by the period
\* filter scores once, 3 or 7 points, for the agent get_name gives for the
\* owner of that lead's first such visit; visits without a phone score nothing.
\* An agent's visit points are the sum over the leads credited to the agent,
\* and lie between 3 and 7 times their number, which is at most the agent's
\* 'Completed (MTD)'.
C2_EveryLeadScoresOnce ==
    Aggregated =>
        /\ Len(agg.lo_data) = Cardinality(Leads)
        /\ \A phone \in Leads : PtsOf(phone) \in {PtsFirstVisit, PtsRepeatVisit}
        /\ \A p \in Persons :
              LET mine == {phone \in Leads : CreditedTo(phone) = p}
              IN /\ Get(agg.lo_pts, p) = SumOver([phone \in mine |-> PtsOf(phone)], mine)
                 /\ Get(agg.lo_pts, p) >= PtsFirstVisit * Cardinality(mine)
                 /\ Get(agg.lo_pts, p) <= PtsRepeatVisit * Cardinality(mine)
                 /\ Cardinality(mine)
                       <= CountNamed(cv_comp, "owner", email_to_name, p)

\* C2 witness: a lead with two completed visits in the period, owned by two
\* different agents, has scored
C2_Witness ==
    /\ Aggregated
    /\ \E i, j \in 1..Len(cv_comp) :
          /\ i < j
          /\ cv_comp[i].phone = cv_comp[j].phone
          /\ cv_comp[i].phone # NoPhone
          /\ get_name(email_to_name, cv_comp[i].owner)
                # get_name(email_to_name, cv_comp[j].owner)
          /\ Get(agg.lo_pts, get_name(email_to_name, cv_comp[i].owner)) > 0

\* C3 as stated: a lead with a completed visit in the period is a repeat visitor
\* (7 points) exactly when the visits table holds more than one visit record
\* of that phone in the current and earlier periods.
C3_RepeatIffSeveralRecords ==
    Aggregated =>
        \A phone \in Leads :
            PtsOf(phone) = PtsRepeatVisit
            <=> Cardinality({i \in 1..Len(tables.visits.rows) :
                    /\ tables.visits.rows[i].phone = phone
                    /\ Le(tables.visits.rows[i].sched, period.end_dt)}) > 1

\* C3 amended: a lead with a completed visit in the period is a repeat visitor
\* (7 points, otherwise 3) exactly when the visits table holds a visit of that
\* phone scheduled before the start date whose 'Status/Visit Completed' is
\* true, or the lead's completed visits kept by the period filter fall on more
\* than one calendar date.
C3_RepeatIffPastDoneOrTwoDates ==
    Aggregated =>
        \A phone \in Leads :
            LET visits == tables.visits.rows
                past == \E i \in 1..Len(visits) :
                            /\ visits[i].phone = phone
                            /\ visits[i].done
                            /\ visits[i].sched # NaT
                            /\ DateOf(visits[i].sched) < SelStart
                twoDates == \E i, j \in 1..Len(cv_comp) :
                            /\ cv_comp[i].phone = phone
                            /\ cv_comp[j].phone = phone
                            /\ DateOf(cv_comp[i].sched) # DateOf(cv_comp[j].sched)
            IN PtsOf(phone) = (IF past \/ twoDates THEN PtsRepeatVisit ELSE PtsFirstVisit)

\* C3 witness: a lead without earlier visits is scored as a repeat visitor for
\* completed visits on two dates of the period
C3_Witness ==
    /\ Aggregated
    /\ \E phone \in Leads :
          /\ PtsOf(phone) = PtsRepeatVisit
          /\ \A i \in 1..Len(tables.visits.rows) :
                tables.visits.rows[i].phone = phone
                => Ge(tables.visits.rows[i].sched, period.start_dt)

\* C10: completed visits are a subset of the scheduled visits of the period:
\* for every agent 'Completed (MTD)' <= 'Scheduled (MTD)' and 'Visits Managed'
\* <= the number of completed visits of the period, and in the demand funnel
\* 'Visitors Completed' <= 'Visitors Scheduled'.
C10_CompletedWithinScheduled ==
    /\ Range(cv_comp) \subseteq Range(cv)
    /\ Len(cv_comp) <= Len(cv)
    /\ \A k \in 1..Len(leaderboard) :
          /\ leaderboard[k].Completed <= leaderboard[k].Scheduled
          /\ leaderboard[k].Managed <= Len(cv_comp)
    /\ shown.funnel # <<>> => shown.funnel[3] <= shown.funnel[2]

\* C10 witness: an agent with fewer completed than scheduled visits, and fewer
\* visitors completed than scheduled in the funnel
C10_Witness ==
    /\ shown.funnel # <<>>
    /\ 0 < shown.funnel[3]
    /\ shown.funnel[3] < shown.funnel[2]
    /\ \E k \in 1..Len(leaderboard) :
          /\ 0 < leaderboard[k].Completed
          /\ leaderboard[k].Completed < leaderboard[k].Scheduled
          /\ 0 < leaderboard[k].Managed


\* email_to_name has been built in this pass
Mapped ==
    /\ tables.admins.cols
    /\ \/ pc \in {"admin", "lb_filter", "lb_points", "lb_render", "supply", "sku",
                  "demand"}
       \/ pc = "idle" /\ outcome \in {"done", "crashed"}

Max(S) == CHOOSE x \in S : \A y \in S : x >= y

\* the admins whose Email, lower-cased, is the stripped and lower-cased value
MatchingAdmins(admins, v) ==
    {i \in 1..Len(admins) : Lower(admins[i].email) = Lower(Strip(v))}

\* C4 as stated: a missing value maps to "Unknown"; a value that is some admin's
\* Email up to letter case and the value's surrounding whitespace maps to that
\* admin's First Name; any other value is returned unchanged; hence a value is
\* credited to leaderboard agent p exactly when it is the email of an admin
\* named p or is the string p.
C4_CreditedIffEmailOrName ==
    Mapped =>
        \A v \in OwnerCells :
            LET admins == tables.admins.rows
                n == get_name(email_to_name, v)
                match == MatchingAdmins(admins, v)
            IN /\ v = NaN => n = Unknown
               /\ (v # NaN /\ match # {}) => \E i \in match : n = admins[i].first
               /\ (v # NaN /\ match = {}) => n = v
               /\ v # NaN =>
                     \A p \in Range(FirstNames(admins)) :
                        n = p <=> ((\E i \in match : admins[i].first = p) \/ v = p)

\* the name get_name is to give for v: the First Name of the last admin row
\* carrying the Email of the first matching row
NameFor(admins, v) ==
    IF v = NaN THEN Unknown
    ELSE IF MatchingAdmins(admins, v) = {} THEN v
    ELSE LET key == admins[Min(MatchingAdmins(admins, v))].email
         IN admins[Max({i \in 1..Len(admins) : admins[i].email = key})].first

\* C4 amended: a missing value maps to "Unknown"; a value whose stripped,
\* lower-cased text equals the lower-cased Email of an admin row maps to the
\* First Name email_to_name holds for the first such Email (the First Name of
\* the last admin row with exactly that Email); any other value is returned
\* unchanged.  A row is credited to leaderboard agent p exactly when that name
\* is p: its owner is missing and p is "Unknown", or the first matching Email
\* belongs to p, or no Email matches and the owner is the string p.
C4_CreditedIffResolvedName ==
    Mapped =>
        /\ \A v \in OwnerCells :
              get_name(email_to_name, v) = NameFor(tables.admins.rows, v)
        /\ \A k \in 1..Len(leaderboard) :
              /\ leaderboard[k].Completed
                    = Cardinality({i \in 1..Len(cv_comp) :
                          NameFor(tables.admins.rows, cv_comp[i].owner)
                             = leaderboard[k].Person})
              /\ leaderboard[k].Inspections
                    = Cardinality({i \in 1..Len(ci) :
                          NameFor(tables.admins.rows, ci[i].by)
                             = leaderboard[k].Person})

\* C4 witness: a visit whose owner is an admin's e-mail in capitals and padded
\* with blanks is counted for that admin on the leaderboard
C4_Witness ==
    /\ Aggregated
    /\ Len(cv_comp) = 1
    /\ cv_comp[1].owner = MailAUpperPadded
    /\ \E k \in 1..Len(leaderboard) :
          /\ leaderboard[k].Completed = 1
          /\ \E i \in 1..Len(tables.admins.rows) :
                /\ tables.admins.rows[i].first = leaderboard[k].Person
                /\ tables.admins.rows[i].email = MailAMixed


\* what a complete pass does, stage by stage: load and derive, then the
\* Leaderboard, Supply, SKU and Demand sections one after the other
FullTrace ==
    <<"load", "derive">>
    \o <<"filter", "aggregate", "render">>
    \o <<"filter", "aggregate", "render", "filter", "aggregate", "render">>
    \o <<"filter", "aggregate", "render", "filter", "aggregate", "render",
         "aggregate", "render">>
    \o <<"filter", "aggregate", "render">>

IsPrefix(s, t) == Len(s) <= Len(t) /\ SubSeq(t, 1, Len(s)) = s

NoTableStage == Range(trace) \cap TableStages = {}

\* C5: no step of a pass, the load-failure path included, changes persistent
\* state: the nine CSV sources are the same after any sequence of passes and
\* widget changes as before it.
C5_FilesNeverChange == [][csv' = csv]_vars

\* C5 witness: a pass has run to its end after the user changed a manual count
C5_Witness ==
    /\ pc = "idle"
    /\ outcome = "done"
    /\ cache # <<>>
    /\ widgets.tours # <<>>
    /\ shown.tabled

\* C6 as stated: a pass runs the stages in the fixed order load, derive
\* columns, filter, aggregate, render, each stage finishing before the next
\* begins, and stops before any table is filtered, aggregated or rendered when
\* the date selection does not hold exactly two dates.
C6_StagesInOrder ==
    /\ \A i, j \in 1..Len(trace) :
          i < j => StageRank(trace[i]) <= StageRank(trace[j])
    /\ Len(widgets.date_range) # 2 => NoTableStage

\* C6 amended: every UI interaction starts one pass from the top. The pass
\* loads and derives columns first; then the Leaderboard, Supply, SKU and
\* Demand sections run in that fixed order, each filtering and aggregating
\* before it renders, so that a later section filters and aggregates after an
\* earlier one has rendered; and when the date selection does not hold exactly
\* two dates the pass stops before any table is filtered, aggregated or rendered.
C6_SectionsInOrder ==
    [][/\ widgets' # widgets => (pc' = "load" /\ trace' = <<>>)
       /\ IsPrefix(trace', FullTrace)
       /\ \A i \in 1..Len(trace') :
             trace'[i] = "render" => (i > 1 /\ trace'[i - 1] = "aggregate")
       /\ Len(widgets'.date_range) # 2 => Range(trace') \cap TableStages = {}
       /\ (pc' = "idle" /\ outcome' = "done") => trace' = FullTrace]_vars

\* C6 witness: after the user has picked only the first date, the pass has
\* loaded and then stopped
C6_Witness ==
    /\ Len(widgets.date_range) = 1
    /\ pc = "idle"
    /\ outcome = "stopped"
    /\ trace = <<"load", "derive">>

\* some statement of the try block of load_all_data raises
LoadFails == csv.unreadable # {} \/ csv.nocol # {}

\* C8: when reading or pre-processing any one of the nine files raises,
\* load_all_data shows the error and returns nine empty tables: no table of the
\* files that were read is returned or used by the rest of the pass.
C8_FailedLoadIsEmpty ==
    (LoadFails /\ pc # "load") =>
        /\ \A t \in TableSet : tables[t] = EmptyFrame
        /\ err_shown # ""
        /\ cv = <<>> /\ cv_comp = <<>> /\ ci = <<>>
        /\ leaderboard = <<>>
        /\ shown = NoShown

\* C8 witness: the eighth file cannot be read, seven files with rows were read
\* before it, and the pass has gone on with empty tables
C8_Witness ==
    /\ csv.unreadable = {"offers.csv"}
    /\ csv.rows = DefaultRows
    /\ err_shown = "offers.csv"
    /\ pc = "idle"
    /\ outcome = "crashed"

====
